---- MODULE Spec2Model ----
(***************************************************************************)
(* The request ledger (MetricsCollector), the metric aggregator            *)
(* (aggregate_metrics) and the formula library of QuantumNetworkMetrics.   *)
(*                                                                         *)
(* Times are integer nanoseconds of the simulation clock.  Fidelities are  *)
(* integers in tenths (3 stands for 0.3).  Every other float of the        *)
(* program is an exact number [num, den, e9] that stands for               *)
(* num/den * (10^9)^e9; den = 0 is IEEE's inf (num > 0), -inf (num < 0)    *)
(* and nan (num = 0).                                                      *)
(***************************************************************************)
EXTENDS Integers, Sequences, FiniteSets, TLC

\* ------------------------------------------------------------------ bounds
MaxTime == 1
MaxUnits == 2
MaxRegistrations == 2
MaxDeliveries == 4
MaxValue == 2
MaxLen == 3

RequestIds == {1, 2}
NodeIds == {"A", "B"}
UnitCounts == 0..MaxUnits
Fids == {3, 5}
Thresholds == {0, 5}

\* ------------------------------------------------------- exact arithmetic
Abs(n) == IF n < 0 THEN -n ELSE n

Sign(n) == IF n < 0 THEN -1 ELSE IF n > 0 THEN 1 ELSE 0

RECURSIVE Gcd(_, _)
Gcd(a, b) == IF b = 0 THEN a ELSE Gcd(b, a % b)

\* num/den * (10^9)^e9 in lowest terms; zero, inf and nan have one form each
Norm(n, d, e) ==
    IF d = 0 THEN [num |-> Sign(n), den |-> 0, e9 |-> 0]
    ELSE IF n = 0 THEN [num |-> 0, den |-> 1, e9 |-> 0]
    ELSE LET g == Gcd(Abs(n), Abs(d))
         IN  [num |-> (Sign(d) * n) \div g, den |-> Abs(d) \div g, e9 |-> e]

Float(n) == Norm(n, 1, 0)

Zero == Float(0)
One == Float(1)
Inf == Norm(1, 0, 0)
NaN == Norm(0, 0, 0)

IsNaN(x) == x.den = 0 /\ x.num = 0
IsInfinite(x) == x.den = 0 /\ x.num # 0

\* x + y; finite non-zero operands of one sum have the same power of 10^9
FAdd(x, y) ==
    IF IsNaN(x) \/ IsNaN(y) THEN NaN
    ELSE IF IsInfinite(x) /\ IsInfinite(y) THEN (IF x.num = y.num THEN x ELSE NaN)
    ELSE IF IsInfinite(x) THEN x
    ELSE IF IsInfinite(y) THEN y
    ELSE IF x.num = 0 THEN y
    ELSE IF y.num = 0 THEN x
    ELSE Norm(x.num * y.den + y.num * x.den, x.den * y.den, x.e9)

FMul(x, y) ==
    IF IsNaN(x) \/ IsNaN(y) THEN NaN
    ELSE IF IsInfinite(x) \/ IsInfinite(y)
         THEN (IF x.num = 0 \/ y.num = 0 THEN NaN ELSE Norm(Sign(x.num) * Sign(y.num), 0, 0))
    ELSE Norm(x.num * y.num, x.den * y.den, x.e9 + y.e9)

\* numpy's float division: x/0 is inf or nan, never an exception
FDiv(x, y) ==
    IF IsNaN(x) \/ IsNaN(y) THEN NaN
    ELSE IF IsInfinite(y) THEN (IF IsInfinite(x) THEN NaN ELSE Zero)
    ELSE IF IsInfinite(x) THEN Norm(Sign(x.num) * (IF y.num < 0 THEN -1 ELSE 1), 0, 0)
    ELSE IF y.num = 0 THEN Norm(Sign(x.num), 0, 0)
    ELSE Norm(x.num * y.den, x.den * y.num, x.e9 - y.e9)

\* the float 1e9
Giga == [num |-> 1, den |-> 1, e9 |-> 1]

RECURSIVE FSum(_)
FSum(s) == IF s = <<>> THEN Zero ELSE FAdd(Head(s), FSum(Tail(s)))

\* np.mean of a non-empty list
Mean(s) == FDiv(FSum(s), Float(Len(s)))

\* ---------------------------------------------------------- formula library
\* throughput.py: units / elapsed time, 0.0 when the time is not positive
throughput(num_entangled_states, total_time) ==
    IF total_time <= 0 THEN Zero
    ELSE FDiv(Float(num_entangled_states), Float(total_time))

\* latency.py
\* the difference taken the other way round
request_latency_reversed(completion_time, request_time) ==
    request_time - completion_time

request_latency(completion_time, request_time) == completion_time - request_time

\* the quotient without the guard of lines 48-49
unit_latency_unguarded(total_time, num_units) ==
    FDiv(Float(total_time), Float(num_units))

unit_latency(total_time, num_units) ==
    IF num_units <= 0 THEN Inf
    ELSE FDiv(Float(total_time), Float(num_units))

\* the request's latency not divided by its units
scaled_latency_unscaled(req_latency, num_units) == Float(req_latency)

scaled_latency(req_latency, num_units) ==
    IF num_units <= 0 THEN Inf
    ELSE FDiv(Float(req_latency), Float(num_units))

RECURSIVE SumOfSquares(_)
SumOfSquares(s) ==
    IF s = <<>> THEN Zero ELSE FAdd(FMul(Head(s), Head(s)), SumOfSquares(Tail(s)))

\* Jain's index without the n of its denominator
fairness_without_n(values) ==
    IF Len(values) = 0 THEN One
    ELSE FDiv(FMul(FSum(values), FSum(values)), SumOfSquares(values))

\* fairness.py: Jain's index (sum x)^2 / (n * sum x^2), 1.0 for no values
fairness(values) ==
    IF Len(values) = 0 THEN One
    ELSE FDiv(FMul(FSum(values), FSum(values)),
              FMul(Float(Len(values)), SumOfSquares(values)))

\* robustness.py, line 49: the metric types for which higher is better
HigherIsBetter == {"throughput", "fidelity", "fairness"}

\* raise ValueError(...)
ValueError == [error |-> "ValueError"]

\* the float comparison x < 0 in place of x <= 0
Negative(x) == ~IsNaN(x) /\ x.num < 0

\* the float comparison x <= 0: false for nan
NotPositive(x) == ~IsNaN(x) /\ x.num <= 0

\* an unknown metric type read as 'throughput'
robustness_lenient(metric_baseline, metric_degraded, metric_type) ==
    IF metric_type = "latency"
    THEN (IF NotPositive(metric_degraded) THEN Inf
          ELSE FDiv(metric_baseline, metric_degraded))
    ELSE (IF NotPositive(metric_baseline) THEN Zero
          ELSE FDiv(metric_degraded, metric_baseline))

\* robustness.py, lines 49-61
robustness(metric_baseline, metric_degraded, metric_type) ==
    IF metric_type \in HigherIsBetter
    THEN (IF NotPositive(metric_baseline) THEN Zero
          ELSE FDiv(metric_degraded, metric_baseline))
    ELSE IF metric_type = "latency"
    THEN (IF NotPositive(metric_degraded) THEN Inf
          ELSE FDiv(metric_baseline, metric_degraded))
    ELSE ValueError

\* ------------------------------------------------------------ ledger state
VARIABLES
    fidelity_threshold,  \* MetricsCollector.fidelity_threshold, in tenths
    requests,            \* MetricsCollector.requests: the completed list
    start_time,          \* MetricsCollector.start_time
    end_time,            \* MetricsCollector.end_time
    active_requests,     \* MetricsCollector._active_requests: id -> record
    rejected_states,     \* MetricsCollector.rejected_states
    fidelity_values,     \* MetricsCollector.fidelity_values
    now,                 \* ns.sim_time(), the simulation clock
    metrics,             \* the snapshot returned in the last step, if any
    registered,          \* history: id -> number of record_request calls
    reused,              \* history: ids registered again after completing
    accepted,            \* history: id -> deliveries that counted a unit
    scored,              \* history: counted deliveries with a fidelity
    sample_nodes,        \* history: the node each fidelity value came from
    call,                \* history: the call made in the last step, if any
    applied,             \* the library call of the last step and what it gave
    qubit_store,         \* demo: (request_id, sequence) -> names of the nodes stored
    in_flight,           \* the DELIVER messages the network has yet to hand over
    recorded             \* history: key -> record_delivery calls of the callback

ledger == <<requests, active_requests, rejected_states, fidelity_values>>

vars == <<fidelity_threshold, requests, start_time, end_time, active_requests,
          rejected_states, fidelity_values, now, metrics, registered, reused,
          accepted, scored, sample_nodes, call, applied, qubit_store,
          in_flight, recorded>>

\* the collector and its history, which no function of the library touches
collector ==
    <<fidelity_threshold, requests, start_time, end_time, active_requests,
      rejected_states, fidelity_values, now, metrics, registered, reused,
      accepted, scored, sample_nodes, call>>

\* the state of the demo's receive callback and of the network feeding it
callbacks == <<qubit_store, in_flight, recorded>>

\* 'completion_time': None
None == -1

\* rows of the two-qubit density matrix qubits[0].qstate.dm
DmRows == 4

\* what record_delivery can be given as qubits: nothing (None or an empty
\* list), a pair whose best Bell-state fidelity is fid, or a pair that
\* qapi.fidelity throws on
Deliverables ==
    {[kind |-> k, fid |-> 0] : k \in {"none", "malformed"}}
    \cup {[kind |-> "state", fid |-> f] : f \in Fids}

ARequest == CHOOSE r \in RequestIds : TRUE

\* the DELIVER messages of one request: every pair of the request is
\* announced once at each of its two end nodes
DeliverMessages ==
    {[node |-> node, request_id |-> ARequest, sequence |-> sequence] :
        node \in NodeIds, sequence \in 1..MaxUnits}

NoCall ==
    [op |-> "none", request_id |-> 0, active |-> FALSE,
     qubits |-> [kind |-> "none", fid |-> 0]]

NoMetrics == [k \in {} |-> Zero]

NoApplication == [fn |-> "none"]

Init ==
    /\ fidelity_threshold \in Thresholds
    /\ requests = <<>>
    /\ start_time = 0
    /\ end_time = 0
    /\ active_requests = [r \in {} |-> 0]
    /\ rejected_states = 0
    /\ fidelity_values = <<>>
    /\ now = 0
    /\ metrics = NoMetrics
    /\ registered = [r \in RequestIds |-> 0]
    /\ reused = {}
    /\ accepted = [r \in RequestIds |-> 0]
    /\ scored = 0
    /\ sample_nodes = <<>>
    /\ call = NoCall
    /\ applied = NoApplication
    /\ qubit_store = [key \in {} |-> {}]
    /\ in_flight = DeliverMessages
    /\ recorded = [key \in {ARequest} \X (1..MaxUnits) |-> 0]

\* the simulation engine advances the clock between callbacks
Tick ==
    /\ now < MaxTime
    /\ now' = now + 1
    /\ call' = NoCall
    /\ metrics' = NoMetrics
    /\ UNCHANGED <<fidelity_threshold, requests, start_time, end_time,
                   active_requests, rejected_states, fidelity_values,
                   registered, reused, accepted, scored, sample_nodes, applied,
                   qubit_store, in_flight, recorded>>

start_simulation ==
    /\ start_time' = now
    /\ call' = NoCall
    /\ metrics' = NoMetrics
    /\ UNCHANGED <<fidelity_threshold, requests, end_time, active_requests,
                   rejected_states, fidelity_values, now, registered, reused,
                   accepted, scored, sample_nodes, applied,
                   qubit_store, in_flight, recorded>>

end_simulation ==
    /\ end_time' = now
    /\ call' = NoCall
    /\ metrics' = NoMetrics
    /\ UNCHANGED <<fidelity_threshold, requests, start_time, active_requests,
                   rejected_states, fidelity_values, now, registered, reused,
                   accepted, scored, sample_nodes, applied,
                   qubit_store, in_flight, recorded>>

RECURSIVE SumOver(_, _)
SumOver(f, S) ==
    IF S = {} THEN 0
    ELSE LET x == CHOOSE y \in S : TRUE IN f[x] + SumOver(f, S \ {x})

CompletedIds == {requests[i].request_id : i \in 1..Len(requests)}

\* record_request: the new record replaces whatever the id maps to
NewRequest(request_id, num_units, node_id) ==
    [request_id |-> request_id,
     num_units |-> num_units,
     node_id |-> node_id,
     request_time |-> now,
     completion_time |-> None,
     delivered_states |-> <<>>,
     completed_units |-> 0]

record_request(request_id, num_units, node_id) ==
    /\ SumOver(registered, RequestIds) < MaxRegistrations
    /\ active_requests' =
           [r \in DOMAIN active_requests \cup {request_id} |->
               IF r = request_id THEN NewRequest(request_id, num_units, node_id)
               ELSE active_requests[r]]
    /\ registered' = [registered EXCEPT ![request_id] = @ + 1]
    /\ reused' = IF request_id \in CompletedIds THEN reused \cup {request_id} ELSE reused
    /\ call' = NoCall
    /\ metrics' = NoMetrics
    /\ UNCHANGED <<fidelity_threshold, requests, start_time, end_time,
                   rejected_states, fidelity_values, now, accepted, scored,
                   sample_nodes, applied,
                   qubit_store, in_flight, recorded>>

\* record_delivery, line 101: qubits is not None and len(qubits) > 0
HasQubits(qubits) == qubits.kind # "none"

\* a sample is taken of every non-empty qubit list, computed or not
FidelityAssumed(qubits) == qubits.kind # "none"

\* lines 105-111: the four qapi.fidelity calls return, and max_fid is their maximum
FidelityComputed(qubits) == HasQubits(qubits) /\ qubits.kind # "malformed"

\* the threshold check with <= for <
BelowOrAtThreshold(threshold, max_fid) == threshold > 0 /\ max_fid <= threshold

\* line 114: the threshold check
BelowThreshold(threshold, max_fid) == threshold > 0 /\ max_fid < threshold

\* the threshold check made outside the block of line 101, on max_fid = 0
RejectedByDefault(qubits) ==
    BelowThreshold(fidelity_threshold,
                   IF FidelityComputed(qubits) THEN qubits.fid ELSE 0)

Rejected(qubits) ==
    FidelityComputed(qubits) /\ BelowThreshold(fidelity_threshold, qubits.fid)

\* the quota check with > for >=
QuotaExceeded(req) == req.completed_units > req.num_units

\* line 131: the request has its quota
QuotaMet(req) == req.completed_units >= req.num_units

\* lines 97-128: the request after a delivery that did not return early
Delivered(req, qubits) ==
    [req EXCEPT !.completed_units = @ + 1,
                !.delivered_states =
                    IF FidelityComputed(qubits) THEN Append(@, qubits.fid) ELSE @]

\* np.mean(delivered_states, axis=0): one matrix of DmRows rows
MeanState(delivered_states) ==
    [rows |-> DmRows,
     mean |-> Mean([i \in 1..Len(delivered_states) |-> Float(delivered_states[i])])]

\* _finalize_request: the record as it is appended to the completed list
Finalized(req) ==
    LET kept == [k \in (DOMAIN req) \ {"delivered_states"} |-> req[k]]
    IN  IF req.delivered_states # <<>>
        THEN kept @@ ("delivered_state" :> MeanState(req.delivered_states))
        ELSE kept

\* the del of line 157 left out
WithoutNothing(f, x) == f

Without(f, x) == [r \in (DOMAIN f) \ {x} |-> f[r]]

\* a delivery for an id that is not active counted as a rejected state
DropDeliveryCounted ==
    /\ rejected_states' = rejected_states + 1
    /\ UNCHANGED <<requests, active_requests, fidelity_values, accepted, scored,
                   sample_nodes>>

\* lines 94-95: the return for an id that is not active
DropDelivery ==
    UNCHANGED <<requests, active_requests, rejected_states, fidelity_values,
                accepted, scored, sample_nodes>>

\* the decrement of line 117 left out
RejectedDeliveryCounted(req) == [req EXCEPT !.completed_units = @ + 1]

\* lines 98 and 117: the unit counted on entry is taken back
RejectedDelivery(req) == [req EXCEPT !.completed_units = (@ + 1) - 1]

record_delivery(request_id, qubits) ==
    /\ call' = [op |-> "record_delivery", request_id |-> request_id,
                active |-> request_id \in DOMAIN active_requests,
                qubits |-> qubits]
    /\ request_id \in DOMAIN active_requests =>
           SumOver(accepted, RequestIds) + rejected_states < MaxDeliveries
    /\ IF request_id \notin DOMAIN active_requests
       THEN DropDelivery
       ELSE IF Rejected(qubits)
       THEN /\ rejected_states' = rejected_states + 1
            /\ active_requests' =
                   [active_requests EXCEPT ![request_id] = RejectedDelivery(@)]
            /\ UNCHANGED <<requests, fidelity_values, accepted, scored, sample_nodes>>
       ELSE LET req == Delivered(active_requests[request_id], qubits)
            IN  /\ fidelity_values' =
                       IF FidelityComputed(qubits)
                       THEN Append(fidelity_values, qubits.fid)
                       ELSE fidelity_values
                /\ IF QuotaMet(req)
                   THEN /\ requests' =
                               Append(requests,
                                      Finalized([req EXCEPT !.completion_time = now]))
                        /\ active_requests' = Without(active_requests, request_id)
                   ELSE /\ requests' = requests
                        /\ active_requests' =
                               [active_requests EXCEPT ![request_id] = req]
                /\ accepted' = [accepted EXCEPT ![request_id] = @ + 1]
                /\ scored' = IF qubits.kind = "state" THEN scored + 1 ELSE scored
                /\ sample_nodes' =
                       IF FidelityComputed(qubits)
                       THEN Append(sample_nodes, active_requests[request_id].node_id)
                       ELSE sample_nodes
                /\ UNCHANGED rejected_states
    /\ metrics' = NoMetrics
    /\ UNCHANGED <<fidelity_threshold, start_time, end_time, now, registered,
                   reused, applied>>

\* ------------------------------------------- the demo's receive callback
\* record_delivery called for every callback that stored a qubit
AnyStored(stored) == Cardinality(stored) >= 1

\* demo_callbacks.py, line 86: len(qubit_store[key]) == 2
BothStored(stored) == Cardinality(stored) = 2

\* the pairs handed to record_delivery: a list of two qubits
QubitsLists == {q \in Deliverables : q.kind # "none"}

\* receive_callback(node, net, deliver_msg), lines 70-104.  found: the qubit
\* is in the node's memory (line 78 or line 80 returns); if neither does the
\* except of line 101 leaves the entry made by line 72 as it is.  The
\* measurement of lines 108-116 acts on the node, not on this state
receive_callback(node, deliver_msg, found, qubits_list) ==
    LET key == <<deliver_msg.request_id, deliver_msg.sequence>>
        entry == IF key \in DOMAIN qubit_store THEN qubit_store[key] ELSE {}
        stored == IF found THEN entry \cup {node} ELSE entry
    IN  /\ deliver_msg \in in_flight
        /\ deliver_msg.node = node
        /\ in_flight' = in_flight \ {deliver_msg}
        /\ qubit_store' =
               [k \in DOMAIN qubit_store \cup {key} |->
                   IF k = key THEN stored ELSE qubit_store[k]]
        /\ IF found /\ BothStored(stored)
           THEN /\ record_delivery(deliver_msg.request_id, qubits_list)
                /\ recorded' = [recorded EXCEPT ![key] = @ + 1]
           ELSE /\ call' = NoCall
                /\ metrics' = NoMetrics
                /\ UNCHANGED <<fidelity_threshold, requests, start_time, end_time,
                               active_requests, rejected_states, fidelity_values,
                               now, registered, reused, accepted, scored,
                               sample_nodes, applied, recorded>>

\* ------------------------------------------------------ metric aggregator
\* the fairness values of an empty completed list zero-filled
EmptyMetricsAllZero ==
    [throughput |-> Zero,
     mean_request_latency |-> Zero,
     mean_unit_latency |-> Zero,
     mean_scaled_latency |-> Zero,
     fairness_throughput |-> Zero,
     fairness_latency |-> Zero]

\* aggregate_metrics.py, lines 57-65: the snapshot of an empty completed list
EmptyMetrics ==
    [throughput |-> Zero,
     mean_request_latency |-> Zero,
     mean_unit_latency |-> Zero,
     mean_scaled_latency |-> Zero,
     fairness_throughput |-> One,
     fairness_latency |-> One]

Min(a, b) == IF a < b THEN a ELSE b
Max(a, b) == IF a > b THEN a ELSE b

\* lines 78-79: req_latency of every request, in list order
Latencies(reqs) ==
    [i \in 1..Len(reqs) |->
        Float(request_latency(reqs[i].completion_time, reqs[i].request_time))]

\* lines 84-85
UnitLatencies(reqs) ==
    [i \in 1..Len(reqs) |->
        unit_latency(request_latency(reqs[i].completion_time, reqs[i].request_time),
                     reqs[i].num_units)]

\* lines 87-88
ScaledLatencies(reqs) ==
    [i \in 1..Len(reqs) |->
        scaled_latency(request_latency(reqs[i].completion_time, reqs[i].request_time),
                       reqs[i].num_units)]

\* lines 91-99: the keys of per_node_data in insertion order
RECURSIVE NodeOrder(_)
NodeOrder(reqs) ==
    IF reqs = <<>> THEN <<>>
    ELSE LET before == NodeOrder(SubSeq(reqs, 1, Len(reqs) - 1))
             node == reqs[Len(reqs)].node_id
         IN  IF \E i \in 1..Len(before) : before[i] = node
             THEN before
             ELSE Append(before, node)

\* the positions of a node's requests in the list
NodePositions(reqs, node) == {i \in 1..Len(reqs) : reqs[i].node_id = node}

\* line 100: per_node_data[node_id]['units']
NodeUnits(reqs, node) ==
    SumOver([i \in 1..Len(reqs) |-> reqs[i].num_units], NodePositions(reqs, node))

\* line 101: per_node_data[node_id]['latencies']
RECURSIVE NodeLatencies(_, _)
NodeLatencies(reqs, node) ==
    IF reqs = <<>> THEN <<>>
    ELSE LET before == NodeLatencies(SubSeq(reqs, 1, Len(reqs) - 1), node)
             req == reqs[Len(reqs)]
         IN  IF req.node_id = node
             THEN Append(before,
                         Float(request_latency(req.completion_time, req.request_time)))
             ELSE before

\* lines 104-107: min over the node's requests, starting from float('inf')
FirstRequestTime(reqs, node) ==
    LET P == NodePositions(reqs, node)
    IN  reqs[CHOOSE i \in P : \A j \in P : reqs[i].request_time <= reqs[j].request_time]
            .request_time

\* lines 108-111: max over the node's requests, starting from 0
LastCompletionTime(reqs, node) ==
    LET P == NodePositions(reqs, node)
    IN  Max(0, reqs[CHOOSE i \in P :
                       \A j \in P : reqs[i].completion_time >= reqs[j].completion_time]
                   .completion_time)

\* lines 115-122: how many fidelity values the request at position i takes,
\* and the value of fid_idx when the loop reaches it
RECURSIVE FidIdx(_, _, _)
FidTaken(reqs, fids, i) ==
    IF fids # <<>> /\ "delivered_state" \in DOMAIN reqs[i]
    THEN Min(reqs[i].delivered_state.rows, Len(fids) - FidIdx(reqs, fids, i))
    ELSE 0

FidIdx(reqs, fids, i) ==
    IF i = 1 THEN 0
    ELSE FidIdx(reqs, fids, i - 1) + FidTaken(reqs, fids, i - 1)

\* the list fidelities zero-filled when there is no sample
FidelitiesZeroFilled(reqs, fids) ==
    IF fids = <<>> THEN <<0>>
    ELSE SubSeq(fids, 1, FidIdx(reqs, fids, Len(reqs)) + FidTaken(reqs, fids, Len(reqs)))

\* line 120: the list fidelities
Fidelities(reqs, fids) ==
    SubSeq(fids, 1, FidIdx(reqs, fids, Len(reqs)) + FidTaken(reqs, fids, Len(reqs)))

\* line 121: per_node_data[node_id]['fidelities']
RECURSIVE NodeFidelitiesUpTo(_, _, _, _)
NodeFidelitiesUpTo(reqs, fids, node, n) ==
    IF n = 0 THEN <<>>
    ELSE LET before == NodeFidelitiesUpTo(reqs, fids, node, n - 1)
             from == FidIdx(reqs, fids, n)
         IN  IF reqs[n].node_id = node
             THEN before \o SubSeq(fids, from + 1, from + FidTaken(reqs, fids, n))
             ELSE before

NodeFidelities(reqs, fids, node) == NodeFidelitiesUpTo(reqs, fids, node, Len(reqs))

Floats(s) == [i \in 1..Len(s) |-> Float(s[i])]

\* lines 134-138
NodeActiveTime(reqs, node) ==
    LastCompletionTime(reqs, node) - FirstRequestTime(reqs, node)

NodeThroughput(reqs, node) ==
    IF NodeActiveTime(reqs, node) > 0
    THEN FMul(FDiv(Float(NodeUnits(reqs, node)), Float(NodeActiveTime(reqs, node))), Giga)
    ELSE Zero

\* lines 141-142: the lists the loop fills, one value per node
PerNodeThroughputs(reqs) ==
    LET order == NodeOrder(reqs)
    IN  [k \in 1..Len(order) |-> NodeThroughput(reqs, order[k])]

PerNodeLatencies(reqs) ==
    LET order == NodeOrder(reqs)
    IN  [k \in 1..Len(order) |-> Mean(NodeLatencies(reqs, order[k]))]

\* lines 144-152: per_node_metrics[node_id]
PerNodeMetrics(reqs, fids, node) ==
    LET base == [throughput |-> NodeThroughput(reqs, node),
                 total_units |-> NodeUnits(reqs, node)]
    IN  IF NodeFidelities(reqs, fids, node) # <<>>
        THEN base @@ ("avg_fidelity" :> Mean(Floats(NodeFidelities(reqs, fids, node))))
        ELSE base

\* lines 130-132 and 160: node_id after the loop is the last key of per_node_data
LastNode(reqs) == NodeOrder(reqs)[Len(NodeOrder(reqs))]

\* lines 155-165
aggregate_metrics(reqs, simulation_time, fids, rejected) ==
    IF reqs = <<>> THEN EmptyMetrics
    ELSE LET own == [mean_request_latency |-> Mean(Latencies(reqs)),
                     mean_unit_latency |-> Mean(UnitLatencies(reqs)),
                     mean_scaled_latency |-> Mean(ScaledLatencies(reqs)),
                     rejected_states |-> rejected]
             m == own @@ PerNodeMetrics(reqs, fids, LastNode(reqs))
         IN  IF Fidelities(reqs, fids) # <<>>
             THEN m @@ ("mean_fidelity" :> Mean(Floats(Fidelities(reqs, fids))))
             ELSE m

\* calculate_metrics, lines 167-168: an end time of 0 is read as not yet set
EndTime == IF end_time = 0 THEN now ELSE end_time

\* lines 170-186: the snapshot returned
Snapshot ==
    LET simulation_time == EndTime - start_time
    IN  [simulation_time |-> simulation_time,
         start_time |-> start_time,
         end_time |-> EndTime,
         total_requests |-> Len(requests)]
        @@ aggregate_metrics(requests, simulation_time, fidelity_values,
                             rejected_states)

\* a snapshot that hands the samples over and starts the list afresh
calculate_metrics_draining ==
    /\ end_time' = EndTime
    /\ metrics' = Snapshot
    /\ call' = NoCall
    /\ fidelity_values' = <<>>
    /\ UNCHANGED <<fidelity_threshold, requests, start_time, active_requests,
                   rejected_states, now, registered, reused,
                   accepted, scored, sample_nodes, applied,
                   qubit_store, in_flight, recorded>>

calculate_metrics ==
    /\ end_time' = EndTime
    /\ metrics' = Snapshot
    /\ call' = NoCall
    /\ UNCHANGED <<fidelity_threshold, requests, start_time, active_requests,
                   rejected_states, fidelity_values, now, registered, reused,
                   accepted, scored, sample_nodes, applied,
                   qubit_store, in_flight, recorded>>

\* calculate_robustness, lines 205-236: the snapshot key each ratio is taken
\* of, the key it is stored under and the metric type handed to robustness
Compared ==
    {<<"throughput", "robustness_throughput", "throughput">>,
     <<"mean_fidelity", "robustness_fidelity", "fidelity">>,
     <<"mean_request_latency", "robustness_mean_request_latency", "latency">>,
     <<"mean_unit_latency", "robustness_mean_unit_latency", "latency">>,
     <<"mean_scaled_latency", "robustness_mean_scaled_latency", "latency">>,
     <<"fairness_throughput", "robustness_fairness_throughput", "fairness">>,
     <<"fairness_latency", "robustness_fairness_latency", "fairness">>,
     <<"fairness_fidelity", "robustness_fairness_fidelity", "fairness">>}

\* the latency ratios taken by the higher-is-better rule as well
robustness_metrics_one_rule(baseline_metrics, current_metrics) ==
    LET present == {c \in Compared : /\ c[1] \in DOMAIN baseline_metrics
                                     /\ c[1] \in DOMAIN current_metrics}
    IN  [k \in {c[2] : c \in present} |->
            LET c == CHOOSE c \in present : c[2] = k
            IN  robustness(baseline_metrics[c[1]], current_metrics[c[1]],
                           "throughput")]

\* the dict robustness_metrics that calculate_robustness returns
robustness_metrics(baseline_metrics, current_metrics) ==
    LET present == {c \in Compared : /\ c[1] \in DOMAIN baseline_metrics
                                     /\ c[1] \in DOMAIN current_metrics}
    IN  [k \in {c[2] : c \in present} |->
            LET c == CHOOSE c \in present : c[2] = k
            IN  robustness(baseline_metrics[c[1]], current_metrics[c[1]], c[3])]

\* line 202 calls calculate_metrics, which may set end_time
calculate_robustness(baseline_metrics) ==
    /\ end_time' = EndTime
    /\ call' = [op |-> "calculate_robustness",
                baseline_metrics |-> baseline_metrics,
                current_metrics |-> Snapshot,
                robustness_metrics |-> robustness_metrics(baseline_metrics, Snapshot)]
    /\ metrics' = NoMetrics
    /\ UNCHANGED <<fidelity_threshold, requests, start_time, active_requests,
                   rejected_states, fidelity_values, now, registered, reused,
                   accepted, scored, sample_nodes, applied,
                   qubit_store, in_flight, recorded>>

\* the event stream as the ledger sees it.  The ledger never reads the node
\* or the clock, it only stamps them on the record: one node and one instant
\* of simulated time stand for all of them here, and RunSpec varies both
ANode == CHOOSE node \in NodeIds : TRUE

Next ==
    \/ \E r \in RequestIds, n \in UnitCounts : record_request(r, n, ANode)
    \/ \E r \in RequestIds, q \in Deliverables : record_delivery(r, q) /\ UNCHANGED callbacks

Spec == Init /\ [][Next]_vars

\* a whole run as demo_simulation.py drives it: the window is opened before
\* the first request, every request has an id of its own and asks for at
\* least one unit, and snapshots are taken at any time
RunNext ==
    \/ Tick
    \/ SumOver(registered, RequestIds) = 0 /\ start_simulation
    \/ end_simulation
    \/ \E r \in RequestIds, n \in 1..MaxUnits, node \in NodeIds :
           registered[r] = 0 /\ record_request(r, n, node)
    \/ \E r \in RequestIds, q \in Deliverables : record_delivery(r, q) /\ UNCHANGED callbacks
    \/ calculate_metrics

RunSpec == Init /\ [][RunNext]_vars

\* snapshots of the ledger at one instant: one node, the clock at rest
SnapNext ==
    \/ \E r \in RequestIds, n \in 1..MaxUnits :
           registered[r] = 0 /\ record_request(r, n, ANode)
    \/ \E r \in RequestIds, q \in Deliverables : record_delivery(r, q) /\ UNCHANGED callbacks
    \/ calculate_metrics

SnapSpec == Init /\ [][SnapNext]_vars

\* record_delivery(request_id, sequence) with qubits left at its default
Unscored == {q \in Deliverables : q.kind = "none"}

\* the timing of a run: the clock runs, requests of both nodes complete by
\* deliveries without qubits, and snapshots are taken at any time
LatencyNext ==
    \/ Tick
    \/ \E r \in RequestIds, n \in 1..MaxUnits, node \in NodeIds :
           registered[r] = 0 /\ record_request(r, n, node)
    \/ \E r \in RequestIds, q \in Unscored : record_delivery(r, q) /\ UNCHANGED callbacks
    \/ calculate_metrics

LatencySpec == Init /\ [][LatencyNext]_vars

\* the snapshot of a run in which nothing was recorded
FreshSnapshot ==
    [simulation_time |-> 0, start_time |-> 0, end_time |-> 0, total_requests |-> 0]
    @@ EmptyMetrics

\* one request of any quota, 0 included, under a running clock; the run is
\* compared with the snapshot just taken of it (or with no snapshot at all,
\* the empty dict) and with the snapshot of an empty run
CompareNext ==
    \/ Tick
    \/ \E n \in UnitCounts :
           registered[ARequest] = 0 /\ record_request(ARequest, n, ANode)
    \/ \E q \in Deliverables : record_delivery(ARequest, q) /\ UNCHANGED callbacks
    \/ calculate_metrics
    \/ \E b \in {metrics, FreshSnapshot} : calculate_robustness(b)

CompareSpec == Init /\ [][CompareNext]_vars

\* the demo: one request of any quota, and the network hands the DELIVER
\* messages of its pairs to the two nodes' callbacks in any order
CallbackNext ==
    \/ \E n \in UnitCounts :
           registered[ARequest] = 0 /\ record_request(ARequest, n, ANode)
    \/ \E deliver_msg \in in_flight, found \in BOOLEAN, qubits_list \in QubitsLists :
           receive_callback(deliver_msg.node, deliver_msg, found, qubits_list)

CallbackSpec == Init /\ [][CallbackNext]_vars

\* ------------------------------------------------- the library on its own
\* the floats handed to the library: small fractions of either sign, zero,
\* the two infinities and nan
Values ==
    {Norm(n, d, 0) : n \in -1..MaxValue, d \in 1..2}
    \cup {Inf, Norm(-1, 0, 0), NaN}

\* the lists of values handed to fairness
ValueLists == UNION {[1..n -> Values] : n \in 0..MaxLen}

\* the strings handed to robustness as metric_type
MetricTypes == HigherIsBetter \cup {"latency", "jitter", "Throughput"}

\* one call at a time: applied holds the call and what it gave until the
\* caller has taken the result
call_robustness(metric_baseline, metric_degraded, metric_type) ==
    /\ applied = NoApplication
    /\ applied' =
           [fn |-> "robustness",
            metric_baseline |-> metric_baseline,
            metric_degraded |-> metric_degraded,
            metric_type |-> metric_type,
            result |-> robustness(metric_baseline, metric_degraded, metric_type)]
    /\ UNCHANGED <<collector, callbacks>>

call_fairness(values) ==
    /\ applied = NoApplication
    /\ applied' = [fn |-> "fairness", values |-> values, result |-> fairness(values)]
    /\ UNCHANGED <<collector, callbacks>>

\* the counts and times handed to throughput and to the two latencies
Amounts == -1..MaxValue

call_throughput(num_entangled_states, total_time) ==
    /\ applied = NoApplication
    /\ applied' =
           [fn |-> "throughput",
            num_entangled_states |-> num_entangled_states,
            total_time |-> total_time,
            result |-> throughput(num_entangled_states, total_time)]
    /\ UNCHANGED <<collector, callbacks>>

call_unit_latency(total_time, num_units) ==
    /\ applied = NoApplication
    /\ applied' =
           [fn |-> "unit_latency",
            total_time |-> total_time,
            num_units |-> num_units,
            result |-> unit_latency(total_time, num_units)]
    /\ UNCHANGED <<collector, callbacks>>

call_scaled_latency(req_latency, num_units) ==
    /\ applied = NoApplication
    /\ applied' =
           [fn |-> "scaled_latency",
            request_latency |-> req_latency,
            num_units |-> num_units,
            result |-> scaled_latency(req_latency, num_units)]
    /\ UNCHANGED <<collector, callbacks>>

\* the caller goes on, with the value or after handling the exception
take_result ==
    /\ applied # NoApplication
    /\ applied' = NoApplication
    /\ UNCHANGED <<collector, callbacks>>

LibraryNext ==
    \/ \E b \in Values, d \in Values, t \in MetricTypes : call_robustness(b, d, t)
    \/ \E values \in ValueLists : call_fairness(values)
    \/ \E n \in Amounts, t \in Amounts : call_throughput(n, t)
    \/ \E t \in Amounts, n \in Amounts : call_unit_latency(t, n)
    \/ \E l \in Amounts, n \in Amounts : call_scaled_latency(l, n)
    \/ take_result

LibrarySpec == Init /\ [][LibraryNext]_vars

\* ------------------------------------------------------------------ claims
CompletedAt(r) == {i \in 1..Len(requests) : requests[i].request_id = r}

\* the quota a request id was registered with, read from its record
QuotaOf(r) ==
    IF r \in DOMAIN active_requests THEN active_requests[r].num_units
    ELSE IF CompletedAt(r) # {}
         THEN requests[CHOOSE i \in CompletedAt(r) : TRUE].num_units
         ELSE 0

TotalAccepted == SumOver(accepted, RequestIds)

\* C1: a request registered once with num_units = n >= 1 is active with no
\* completion time while fewer than n of its deliveries were accepted, and
\* from the n-th accepted delivery on it is in the completed list exactly
\* once, with a completion time, and not active
C1_CompletesAtQuota ==
    \A r \in RequestIds :
        (registered[r] = 1 /\ QuotaOf(r) >= 1) =>
            /\ accepted[r] <= QuotaOf(r)
            /\ accepted[r] < QuotaOf(r) =>
                   /\ r \in DOMAIN active_requests
                   /\ active_requests[r].completion_time = None
                   /\ CompletedAt(r) = {}
            /\ accepted[r] = QuotaOf(r) =>
                   /\ r \notin DOMAIN active_requests
                   /\ Cardinality(CompletedAt(r)) = 1
                   /\ \A i \in CompletedAt(r) : requests[i].completion_time # None

\* both requests registered once with quota MaxUnits, their deliveries
\* interleaved: one has completed, the other is one unit short
C1_Witness ==
    /\ \A r \in RequestIds : registered[r] = 1 /\ QuotaOf(r) = MaxUnits
    /\ accepted[1] = MaxUnits - 1
    /\ accepted[2] = MaxUnits
    /\ 1 \in DOMAIN active_requests
    /\ CompletedAt(2) # {}

\* C2 as stated: over any sequence of calls the completed list never holds
\* two records of one request id, and no id is active and completed at once
C2_AtMostOnceForAnySequence ==
    \A r \in RequestIds :
        /\ Cardinality(CompletedAt(r)) <= 1
        /\ ~(r \in DOMAIN active_requests /\ CompletedAt(r) # {})

\* C2 amended: the same, for every request id that was never registered
\* again after it had completed
C2_AtMostOnceUnlessReused ==
    \A r \in RequestIds :
        r \notin reused =>
            /\ Cardinality(CompletedAt(r)) <= 1
            /\ ~(r \in DOMAIN active_requests /\ CompletedAt(r) # {})

\* an id registered twice, the second time while still active, has completed
C2_Witness ==
    \E r \in RequestIds :
        /\ registered[r] = 2
        /\ r \notin reused
        /\ CompletedAt(r) # {}

\* C3: record_request for an id that is already active leaves the active
\* request as it was
C3_DuplicateLeavesRequest ==
    [][\A r \in DOMAIN active_requests :
           registered'[r] = registered[r] + 1 =>
               /\ r \in DOMAIN active_requests'
               /\ active_requests'[r] = active_requests[r]]_vars

\* C4: record_delivery for an id that is not active changes nothing of the
\* ledger, whatever is delivered
C4_InactiveDeliveryIsNoOp ==
    [][(/\ call'.op = "record_delivery"
        /\ call'.request_id \notin DOMAIN active_requests)
           => UNCHANGED ledger]_vars

\* a state was delivered for a request that had already completed
C4_Witness ==
    /\ call.op = "record_delivery"
    /\ ~call.active
    /\ call.qubits.kind = "state"
    /\ CompletedAt(call.request_id) # {}

\* C5: a delivery with qubits to an active request adds one to
\* rejected_states exactly when a threshold is set and the fidelity is
\* strictly below it, and then the rest of the ledger stays as it was
C5_RejectedIffBelowThreshold ==
    [][(/\ call'.op = "record_delivery"
        /\ call'.request_id \in DOMAIN active_requests
        /\ call'.qubits.kind # "none")
           => LET below == /\ call'.qubits.kind = "state"
                           /\ fidelity_threshold > 0
                           /\ call'.qubits.fid < fidelity_threshold
              IN  /\ below =>
                      /\ rejected_states' = rejected_states + 1
                      /\ active_requests' = active_requests
                      /\ requests' = requests
                      /\ fidelity_values' = fidelity_values
                  /\ ~below =>
                      /\ rejected_states' = rejected_states
                      /\ <<active_requests, requests>>' # <<active_requests, requests>>
       ]_vars

\* a state below the threshold was delivered to a request that already has
\* a unit, after a state at the threshold had been accepted
C5_Witness ==
    /\ call.op = "record_delivery"
    /\ call.active
    /\ call.qubits.kind = "state"
    /\ call.qubits.fid < fidelity_threshold
    /\ rejected_states = 1
    /\ fidelity_values = <<fidelity_threshold>>
    /\ call.request_id \in DOMAIN active_requests
    /\ active_requests[call.request_id].completed_units = 1

\* C6 as stated: there are as many fidelity samples as accepted deliveries
C6_SamplePerAcceptedDelivery == Len(fidelity_values) = TotalAccepted

\* C6 amended: there are as many fidelity samples as accepted deliveries
\* of a state whose fidelity was computed, so never more than accepted
\* deliveries; a rejected delivery adds none
C6_SamplePerScoredDelivery ==
    /\ Len(fidelity_values) = scored
    /\ Len(fidelity_values) <= TotalAccepted

\* accepted, rejected and sample-free deliveries have all happened
C6_Witness ==
    /\ Len(fidelity_values) >= 1
    /\ TotalAccepted > Len(fidelity_values)
    /\ rejected_states >= 1

\* C7: a delivery to an active request whose fidelity computation throws
\* changes no count: not completed_units, not rejected_states, no sample,
\* and the request does not complete
C7_FailedFidelityIsDropped ==
    [][(/\ call'.op = "record_delivery"
        /\ call'.request_id \in DOMAIN active_requests
        /\ call'.qubits.kind = "malformed")
           => UNCHANGED ledger]_vars

\* C8: with a quota of at least 1, an active request has
\* 0 <= completed_units < num_units and no completion time, and a completed
\* one has completed_units = num_units and a completion time
C8_UnitsWithinQuota ==
    /\ \A r \in DOMAIN active_requests :
           active_requests[r].num_units >= 1 =>
               /\ 0 <= active_requests[r].completed_units
               /\ active_requests[r].completed_units < active_requests[r].num_units
               /\ active_requests[r].completion_time = None
    /\ \A i \in 1..Len(requests) :
           requests[i].num_units >= 1 =>
               /\ requests[i].completed_units = requests[i].num_units
               /\ requests[i].completion_time # None

\* one request is one unit short after a rejection, another has completed
C8_Witness ==
    /\ rejected_states >= 1
    /\ \E r \in DOMAIN active_requests :
           /\ active_requests[r].num_units = MaxUnits
           /\ active_requests[r].completed_units = MaxUnits - 1
    /\ \E i \in 1..Len(requests) : requests[i].num_units = MaxUnits

TotalUnits(reqs) == SumOver([i \in 1..Len(reqs) |-> reqs[i].num_units], 1..Len(reqs))

\* C9: for a non-empty completed list the snapshot's throughput is the sum
\* of num_units over the completed requests divided by end_time - start_time
C9_ThroughputIsGlobal ==
    (DOMAIN metrics # {} /\ requests # <<>>) =>
        /\ "throughput" \in DOMAIN metrics
        /\ metrics.throughput =
               throughput(TotalUnits(requests), metrics.simulation_time)

\* C10: for a non-empty completed list the snapshot holds fairness_throughput
\* and fairness_latency, Jain's index over the per-node throughputs and over
\* the per-node mean latencies
C10_FairnessOverNodes ==
    (DOMAIN metrics # {} /\ requests # <<>>) =>
        /\ "fairness_throughput" \in DOMAIN metrics
        /\ "fairness_latency" \in DOMAIN metrics
        /\ metrics.fairness_throughput = fairness(PerNodeThroughputs(requests))
        /\ metrics.fairness_latency = fairness(PerNodeLatencies(requests))

\* the nodes that have a completed request
CompletedNodes == {requests[i].node_id : i \in 1..Len(requests)}

\* C11: the snapshot holds a map per_node_metrics with one entry for every
\* node that has a completed request and no other; the entry's total_units
\* is the sum of num_units of the node's completed requests, its throughput
\* is total_units / (last completion - first request) * 1e9, or 0 when that
\* window is not positive
C11_PerNodeMetricsInSnapshot ==
    DOMAIN metrics # {} =>
        /\ "per_node_metrics" \in DOMAIN metrics
        /\ DOMAIN metrics.per_node_metrics = CompletedNodes
        /\ \A node \in CompletedNodes :
               /\ metrics.per_node_metrics[node].total_units =
                      NodeUnits(requests, node)
               /\ metrics.per_node_metrics[node].throughput =
                      NodeThroughput(requests, node)

\* C12: when there is a fidelity sample and a completed request, the
\* snapshot's mean_fidelity is the mean of all the samples of the ledger,
\* each counted once, whether its request has completed or not
C12_MeanFidelityOverAllSamples ==
    (DOMAIN metrics # {} /\ fidelity_values # <<>> /\ requests # <<>>) =>
        /\ "mean_fidelity" \in DOMAIN metrics
        /\ metrics.mean_fidelity = Mean(Floats(fidelity_values))

\* the positions of fidelity_values that aggregate_metrics counts toward the
\* node of the n-th completed request
CountedFor(n) ==
    (FidIdx(requests, fidelity_values, n) + 1) ..
        (FidIdx(requests, fidelity_values, n) + FidTaken(requests, fidelity_values, n))

\* C13: every fidelity sample that aggregate_metrics counts toward a node's
\* avg_fidelity came from an accepted delivery for a request of that node
C13_NodeFidelityFromOwnNode ==
    DOMAIN metrics # {} =>
        \A n \in 1..Len(requests) :
            \A i \in CountedFor(n) : sample_nodes[i] = requests[n].node_id

\* C15: the snapshot of an empty completed list, whether no request was
\* registered or every registered request is still active, has throughput
\* 0.0, the three mean latencies 0.0, fairness_throughput and
\* fairness_latency 1.0, and total_requests 0
C15_EmptyListDefaults ==
    (DOMAIN metrics # {} /\ requests = <<>>) =>
        /\ metrics.throughput = Zero
        /\ metrics.mean_request_latency = Zero
        /\ metrics.mean_unit_latency = Zero
        /\ metrics.mean_scaled_latency = Zero
        /\ metrics.fairness_throughput = One
        /\ metrics.fairness_latency = One
        /\ metrics.total_requests = 0

\* a snapshot taken while both requests are active, one of them with a unit
\* and a sample, nothing completed
C15_Witness ==
    /\ DOMAIN metrics # {}
    /\ requests = <<>>
    /\ DOMAIN active_requests = RequestIds
    /\ TotalAccepted >= 1
    /\ fidelity_values # <<>>

\* C16: with no fidelity sample collected the snapshot has neither a
\* mean_fidelity nor a fairness_fidelity field
C16_NoSamplesNoFidelityFields ==
    (DOMAIN metrics # {} /\ fidelity_values = <<>>) =>
        /\ "mean_fidelity" \notin DOMAIN metrics
        /\ "fairness_fidelity" \notin DOMAIN metrics

\* a snapshot of a ledger with a completed request and no sample
C16_Witness ==
    /\ DOMAIN metrics # {}
    /\ fidelity_values = <<>>
    /\ requests # <<>>
    /\ TotalAccepted >= 2

\* a common multiple of every num_units
RECURSIVE Factorial(_)
Factorial(n) == IF n <= 1 THEN 1 ELSE n * Factorial(n - 1)

\* the sum over the completed requests of completion_time - request_time
TotalLatency ==
    SumOver([i \in 1..Len(requests) |->
                requests[i].completion_time - requests[i].request_time],
            1..Len(requests))

\* Factorial(MaxUnits) times the sum over the completed requests of
\* (completion_time - request_time) / num_units
TotalLatencyPerUnit ==
    SumOver([i \in 1..Len(requests) |->
                (requests[i].completion_time - requests[i].request_time)
                    * (Factorial(MaxUnits) \div requests[i].num_units)],
            1..Len(requests))

\* C17: for a non-empty completed list mean_request_latency is the mean of
\* completion_time - request_time, mean_unit_latency and mean_scaled_latency
\* are both the mean of (completion_time - request_time) / num_units; the
\* two are equal in every snapshot
C17_MeanLatencies ==
    DOMAIN metrics # {} =>
        /\ metrics.mean_unit_latency = metrics.mean_scaled_latency
        /\ requests # <<>> =>
               /\ metrics.mean_request_latency =
                      Norm(TotalLatency, Len(requests), 0)
               /\ metrics.mean_unit_latency =
                      Norm(TotalLatencyPerUnit,
                           Factorial(MaxUnits) * Len(requests), 0)

\* a snapshot of two completed requests with different quotas and different
\* latencies, where the mean per unit is not the mean per request
C17_Witness ==
    /\ DOMAIN metrics # {}
    /\ Len(requests) = 2
    /\ requests[1].num_units # requests[2].num_units
    /\ requests[1].completion_time - requests[1].request_time
           # requests[2].completion_time - requests[2].request_time
    /\ metrics.mean_unit_latency # metrics.mean_request_latency
    /\ metrics.mean_unit_latency # Zero

\* C14: every snapshot holds rejected_states, the number of deliveries the
\* ledger has rejected by threshold, also when no request has completed
C14_RejectedStatesReported ==
    DOMAIN metrics # {} =>
        /\ "rejected_states" \in DOMAIN metrics
        /\ metrics.rejected_states = rejected_states

\* a float that is neither an infinity nor nan
Finite(x) == x.den # 0

\* the float comparisons x > 0 and x <= 0, both false for nan
GreaterThanZero(x) == ~(x.den = 0 /\ x.num = 0) /\ x.num > 0
AtMostZero(x) == ~(x.den = 0 /\ x.num = 0) /\ x.num <= 0

\* what C18 says of the ratio: for throughput, fidelity and fairness it is
\* 0.0 when baseline <= 0 and otherwise degraded / baseline, that is the
\* number that times baseline gives degraded; for latency it is +infinity
\* when degraded <= 0 and otherwise baseline / degraded
RobustnessIsTheRatio ==
    applied.fn = "robustness" =>
        LET b == applied.metric_baseline
            d == applied.metric_degraded
            r == applied.result
        IN  /\ applied.metric_type \in HigherIsBetter =>
                   /\ AtMostZero(b) => r = Zero
                   /\ ~AtMostZero(b) => r = FDiv(d, b)
                   /\ (GreaterThanZero(b) /\ Finite(b) /\ Finite(d)) => FMul(r, b) = d
            /\ applied.metric_type = "latency" =>
                   /\ AtMostZero(d) => r = Inf
                   /\ ~AtMostZero(d) => r = FDiv(b, d)
                   /\ (GreaterThanZero(d) /\ Finite(d) /\ Finite(b)) => FMul(r, d) = b

\* C18 as stated: robustness is the ratio above, hence for higher-is-better
\* types robustness(b, b) = 1.0 for every b > 0 and robustness(0, d) = 0.0,
\* and for latency robustness(b, 0) = +infinity
C18_RatioAndUnitForEveryPositive ==
    /\ RobustnessIsTheRatio
    /\ applied.fn = "robustness" =>
           /\ (/\ applied.metric_type \in HigherIsBetter
               /\ GreaterThanZero(applied.metric_baseline)
               /\ applied.metric_degraded = applied.metric_baseline)
                  => applied.result = One
           /\ (applied.metric_type \in HigherIsBetter /\ applied.metric_baseline = Zero)
                  => applied.result = Zero
           /\ (applied.metric_type = "latency" /\ applied.metric_degraded = Zero)
                  => applied.result = Inf

\* C18 amended: the same, with robustness(b, b) = 1.0 for every finite b > 0
C18_RatioAndUnitForFinitePositive ==
    /\ RobustnessIsTheRatio
    /\ applied.fn = "robustness" =>
           /\ (/\ applied.metric_type \in HigherIsBetter
               /\ GreaterThanZero(applied.metric_baseline)
               /\ Finite(applied.metric_baseline)
               /\ applied.metric_degraded = applied.metric_baseline)
                  => applied.result = One
           /\ (applied.metric_type \in HigherIsBetter /\ applied.metric_baseline = Zero)
                  => applied.result = Zero
           /\ (applied.metric_type = "latency" /\ applied.metric_degraded = Zero)
                  => applied.result = Inf

\* robustness(1/2, 1/2, 'fidelity') has returned 1.0
C18_Witness ==
    /\ applied.fn = "robustness"
    /\ applied.metric_type = "fidelity"
    /\ applied.metric_baseline = Norm(1, 2, 0)
    /\ applied.metric_degraded = Norm(1, 2, 0)
    /\ applied.result = One

\* C19: robustness with a metric type other than throughput, fidelity,
\* fairness and latency raises ValueError whatever the two values are, and
\* with one of the four types it never does; the call leaves the collector
\* as it was
C19_UnknownTypeRaises ==
    [][applied'.fn = "robustness" =>
           /\ (applied'.metric_type \notin HigherIsBetter \cup {"latency"})
                  <=> (applied'.result = ValueError)
           /\ UNCHANGED collector]_vars

\* robustness(1.0, inf, 'Throughput') has raised
C19_Witness ==
    /\ applied.fn = "robustness"
    /\ applied.metric_type = "Throughput"
    /\ applied.metric_baseline = One
    /\ applied.metric_degraded = Inf
    /\ applied.result = ValueError

\* C20: fairness of n >= 0 copies of one value x is exactly 1.0
C20_EqualValuesAreFair ==
    (/\ applied.fn = "fairness"
     /\ \A i, j \in 1..Len(applied.values) : applied.values[i] = applied.values[j])
        => applied.result = One

\* x <= y for two floats that are finite
AtMost(x, y) == x.num * y.den <= y.num * x.den

\* the positions of the values of the last fairness call that are > 0
PositivePositions ==
    {i \in 1..Len(applied.values) : GreaterThanZero(applied.values[i])}

\* what C21 says of a call of fairness with n values: 1/n <= J <= 1, J = 1/n
\* when exactly one value is positive, and fairness([a, 0]) = 0.5
JainBounds ==
    LET n == Len(applied.values)
        J == applied.result
    IN  /\ Finite(J)
        /\ AtMost(Norm(1, n, 0), J)
        /\ AtMost(J, One)
        /\ Cardinality(PositivePositions) = 1 => J = Norm(1, n, 0)
        /\ (n = 2 /\ applied.values[2] = Zero) => J = Norm(1, 2, 0)

C22_DegenerateInputsGiveSentinels ==
    /\ (applied.fn = "throughput" /\ applied.total_time <= 0)
           => applied.result = Zero
    /\ (applied.fn \in {"unit_latency", "scaled_latency"} /\ applied.num_units <= 0)
           => applied.result = Inf
    /\ (applied.fn = "fairness" /\ applied.values = <<>>)
           => applied.result = One
    /\ applied.fn \in {"throughput", "unit_latency", "scaled_latency", "fairness"}
           => applied.result # ValueError

\* unit_latency(0, 0), where the quotient would be 0 / 0, has returned
\* +infinity
C22_Witness ==
    /\ applied.fn = "unit_latency"
    /\ applied.total_time = 0
    /\ applied.num_units = 0
    /\ applied.result = Inf

\* the metrics C23 names and the key of the ratio of each
RatioKey ==
    [throughput |-> "robustness_throughput",
     mean_fidelity |-> "robustness_fidelity",
     mean_request_latency |-> "robustness_mean_request_latency",
     mean_unit_latency |-> "robustness_mean_unit_latency",
     mean_scaled_latency |-> "robustness_mean_scaled_latency",
     fairness_throughput |-> "robustness_fairness_throughput",
     fairness_latency |-> "robustness_fairness_latency",
     fairness_fidelity |-> "robustness_fairness_fidelity"]

LowerIsBetter ==
    {"mean_request_latency", "mean_unit_latency", "mean_scaled_latency"}

\* what C23 says of every call: a ratio for a metric exactly when both
\* snapshots have it, baseline / current (+infinity for current <= 0) for
\* the latencies and current / baseline (0.0 for baseline <= 0) for the rest
RatioPerSharedMetric ==
    LET b == call.baseline_metrics
        c == call.current_metrics
        r == call.robustness_metrics
    IN  /\ DOMAIN r \subseteq {RatioKey[m] : m \in DOMAIN RatioKey}
        /\ \A m \in DOMAIN RatioKey :
               /\ RatioKey[m] \in DOMAIN r <=> (m \in DOMAIN b /\ m \in DOMAIN c)
               /\ RatioKey[m] \in DOMAIN r =>
                      r[RatioKey[m]] =
                          IF m \in LowerIsBetter
                          THEN (IF AtMostZero(c[m]) THEN Inf ELSE FDiv(b[m], c[m]))
                          ELSE (IF AtMostZero(b[m]) THEN Zero ELSE FDiv(c[m], b[m]))

\* C23 as stated: the ratios are as above, and a run compared with its own
\* snapshot has ratio 1.0 for every metric whose value is positive
C23_OwnSnapshotGivesOneIfPositive ==
    call.op = "calculate_robustness" =>
        /\ RatioPerSharedMetric
        /\ call.baseline_metrics = call.current_metrics =>
               \A m \in DOMAIN RatioKey \cap DOMAIN call.current_metrics :
                   GreaterThanZero(call.current_metrics[m])
                       => call.robustness_metrics[RatioKey[m]] = One

\* C23 amended: the same, with ratio 1.0 for every metric whose value is
\* positive and finite
C23_OwnSnapshotGivesOneIfFinitePositive ==
    call.op = "calculate_robustness" =>
        /\ RatioPerSharedMetric
        /\ call.baseline_metrics = call.current_metrics =>
               \A m \in DOMAIN RatioKey \cap DOMAIN call.current_metrics :
                   (GreaterThanZero(call.current_metrics[m])
                    /\ Finite(call.current_metrics[m]))
                       => call.robustness_metrics[RatioKey[m]] = One

\* a run with a completed request, a positive throughput, positive
\* latencies and a fidelity sample, compared with its own snapshot: five
\* ratios, all 1.0
C23_Witness ==
    /\ call.op = "calculate_robustness"
    /\ requests # <<>>
    /\ call.baseline_metrics = call.current_metrics
    /\ GreaterThanZero(call.current_metrics.throughput)
    /\ GreaterThanZero(call.current_metrics.mean_unit_latency)
    /\ "mean_fidelity" \in DOMAIN call.current_metrics
    /\ Cardinality(DOMAIN call.robustness_metrics) = 5
    /\ \A k \in DOMAIN call.robustness_metrics : call.robustness_metrics[k] = One

\* the nodes stored for a Bell pair key before and after a step
StoredFor(key) == IF key \in DOMAIN qubit_store THEN qubit_store[key] ELSE {}

StoredForAfter(key) == IF key \in DOMAIN qubit_store' THEN qubit_store'[key] ELSE {}

ReachesQuota(r) ==
    /\ call'.op = "record_delivery"
    /\ call'.request_id = r
    /\ ~Rejected(call'.qubits)
    /\ accepted'[r] = accepted[r] + 1
    /\ accepted'[r] >= active_requests[r].num_units

C26_DeliveryWithoutStateCounts ==
    [][(call'.op = "record_delivery" /\ call'.active /\ ~HasQubits(call'.qubits)) =>
           LET r == call'.request_id
               req == active_requests[r]
           IN  /\ rejected_states' = rejected_states
               /\ fidelity_values' = fidelity_values
               /\ accepted'[r] = accepted[r] + 1
               /\ IF req.completed_units + 1 >= req.num_units
                  THEN /\ r \notin DOMAIN active_requests'
                       /\ requests' =
                              Append(requests,
                                     Finalized([req EXCEPT
                                                   !.completed_units = @ + 1,
                                                   !.completion_time = now]))
                  ELSE /\ requests' = requests
                       /\ active_requests' =
                              [active_requests EXCEPT
                                  ![r].completed_units = @ + 1]]_vars

\* under a threshold of 0.5 a request has just completed by a delivery
\* without qubits: no sample, no delivered state, nothing rejected
C26_Witness ==
    /\ call.op = "record_delivery"
    /\ call.active
    /\ ~HasQubits(call.qubits)
    /\ fidelity_threshold > 0
    /\ requests # <<>>
    /\ requests[Len(requests)].request_id = call.request_id
    /\ "delivered_state" \notin DOMAIN requests[Len(requests)]
    /\ fidelity_values = <<>>
    /\ rejected_states = 0

\* the sum of completed_units over the active and the completed requests
CountedUnits(active, completed) ==
    SumOver([r \in DOMAIN active |-> active[r].completed_units], DOMAIN active)
    + SumOver([i \in 1..Len(completed) |-> completed[i].completed_units],
              1..Len(completed))

NeverReRegistered == \A r \in RequestIds : registered[r] <= 1

\* C27: a record_delivery call for an active request either counts a unit
\* (the sum of completed_units grows by 1, rejected_states stays) or is
\* rejected (rejected_states grows by 1, the sum stays), never both and never
\* neither; while no request id has been registered twice no other step
\* changes either figure, so their total is the number of deliveries made to
\* active requests, and the sum of completed_units is the number of those
\* that counted
C27_AcceptedOrRejected ==
    [][LET before == CountedUnits(active_requests, requests)
           after == CountedUnits(active_requests', requests')
       IN  /\ (call'.op = "record_delivery" /\ call'.active) =>
                  \/ after = before + 1 /\ rejected_states' = rejected_states
                  \/ after = before /\ rejected_states' = rejected_states + 1
           /\ NeverReRegistered' =>
                  /\ ~(call'.op = "record_delivery" /\ call'.active) =>
                         after = before /\ rejected_states' = rejected_states
                  /\ after = SumOver(accepted', RequestIds)]_vars

\* two requests registered once each, one completed and one active with a
\* unit, and a delivery just rejected: three deliveries or more in all
C27_Witness ==
    /\ NeverReRegistered
    /\ call.op = "record_delivery"
    /\ call.active
    /\ Rejected(call.qubits)
    /\ requests # <<>>
    /\ \E r \in DOMAIN active_requests : active_requests[r].completed_units >= 1
    /\ rejected_states >= 1
    /\ CountedUnits(active_requests, requests) + rejected_states >= 3

\* the orders in which the completed requests can have been appended: any
\* order that keeps their completion times non-decreasing
CompletionOrders ==
    {p \in Permutations(1..Len(requests)) :
        \A i, j \in 1..Len(requests) :
            i < j => requests[p[i]].completion_time <= requests[p[j]].completion_time}

Reordered(p) == [i \in 1..Len(requests) |-> requests[p[i]]]

\* C28: the snapshot aggregate_metrics computes of the completed list is the
\* same for every order in which the same requests, with the same
\* timestamps, nodes, units and samples, can have completed
C28_SnapshotIgnoresOrder ==
    \A p \in CompletionOrders :
        aggregate_metrics(Reordered(p), EndTime - start_time, fidelity_values,
                          rejected_states)
            = aggregate_metrics(requests, EndTime - start_time, fidelity_values,
                                rejected_states)

\* C29: a step of calculate_metrics or calculate_robustness leaves the
\* active set, the completed list, rejected_states and the sample list as
\* they were, and the threshold, the clock and the start of the window that
\* the next delivery or registration reads; and a snapshot taken right
\* after another, by either operation, is equal to it
C29_SnapshotLeavesLedger ==
    [][(DOMAIN metrics' # {} \/ call'.op = "calculate_robustness") =>
           /\ ledger' = ledger
           /\ fidelity_threshold' = fidelity_threshold
           /\ start_time' = start_time
           /\ now' = now
           /\ (DOMAIN metrics # {} /\ DOMAIN metrics' # {}) => metrics' = metrics
           /\ (DOMAIN metrics # {} /\ call'.op = "calculate_robustness") =>
                  call'.current_metrics = metrics
           /\ (call.op = "calculate_robustness" /\ DOMAIN metrics' # {}) =>
                  metrics' = call.current_metrics
           /\ (call.op = "calculate_robustness" /\ call'.op = "calculate_robustness") =>
                  call'.current_metrics = call.current_metrics]_vars

\* calculate_metrics and then calculate_robustness with its result, on a
\* ledger with an active request that has a unit and a sample, and with a
\* rejected state: the second snapshot is the first
C29_Witness ==
    /\ call.op = "calculate_robustness"
    /\ call.baseline_metrics = call.current_metrics
    /\ end_time > 0
    /\ ARequest \in DOMAIN active_requests
    /\ active_requests[ARequest].completed_units >= 1
    /\ fidelity_values # <<>>
    /\ rejected_states >= 1

\* the nodes that have a completed request
NodesOf(reqs) == {reqs[i].node_id : i \in 1..Len(reqs)}

\* C30: under a clock that never runs backwards every completed request
\* has completion_time >= request_time, every latency aggregate_metrics
\* computes of a request and every active window it computes of a node is
\* non-negative, and the completed list is in non-decreasing order of
\* completion_time
C30_TimesAreOrdered ==
    /\ \A i \in 1..Len(requests) :
           /\ requests[i].completion_time >= requests[i].request_time
           /\ ~Negative(Latencies(requests)[i])
           /\ ~Negative(UnitLatencies(requests)[i])
           /\ ~Negative(ScaledLatencies(requests)[i])
    /\ \A node \in NodesOf(requests) : NodeActiveTime(requests, node) >= 0
    /\ \A i, j \in 1..Len(requests) :
           i < j => requests[i].completion_time <= requests[j].completion_time

\* two requests of two nodes have completed at different times, the later
\* one after waiting
C30_Witness ==
    /\ Len(requests) = 2
    /\ requests[1].node_id # requests[2].node_id
    /\ requests[1].completion_time < requests[2].completion_time
    /\ requests[2].completion_time > requests[2].request_time
    /\ GreaterThanZero(Latencies(requests)[2])
    /\ NodeActiveTime(requests, requests[2].node_id) > 0

====
